---- MODULE Spec2Model ----
(***************************************************************************)
(* A model of pfp/fields.py: the typed field tree of the pfp binary        *)
(* template interpreter (Field, Struct, NumberBase and its concrete        *)
(* types, Array, String, WString).                                         *)
(*                                                                         *)
(* Python objects live in a heap (a sequence of slots; an object's         *)
(* identity is its slot; an object nothing refers to any more leaves its   *)
(* slot free, as CPython's reference counts do).  Python values are tagged *)
(* records Val(k, n, s):                                                   *)
(*   "int"   n = the integer                                               *)
(*   "float" s = <<sign, m, e>>, the finite double (-1)^sign * m * 2^e,    *)
(*           m = 0 or m odd                                                *)
(*   "inf"   n = sign          "nan"                                       *)
(*   "str"   s = the bytes of a Python 2 str                               *)
(*   "ustr"  s = the code points of a Python 2 unicode                     *)
(*   "none"  None              "unset" the attribute does not exist        *)
(* An operation that raises returns the exception's name in err; what it   *)
(* assigned before raising stays assigned.                                 *)
(***************************************************************************)
EXTENDS Integers, Sequences, FiniteSets, TLC

VARIABLES heap, last, attached, readSince, rt

\* heap: the objects; last: the last operation and its outcome;
\* attached: the _pfp__add_child calls made so far, <<struct, name, child>>;
\* readSince: a child was read by name since the last _pfp__add_child;
\* rt: the round-trip run
vars == <<heap, last, attached, readSince, rt>>

\* ------------------------------------------------------------ values

Val(k, n, s) == [k |-> k, n |-> n, s |-> s]
IntV(n) == Val("int", n, <<>>)
FloatV(sg, m, e) == Val("float", 0, <<sg, m, e>>)
InfV(sg) == Val("inf", sg, <<>>)
NanV == Val("nan", 0, <<>>)
StrV(s) == Val("str", 0, s)
UStrV(s) == Val("ustr", 0, s)
NoneV == Val("none", 0, <<>>)
UnsetV == Val("unset", 0, <<>>)

BIG_ENDIAN == ">"
LITTLE_ENDIAN == "<"

RECURSIVE Pow2(_)
Pow2(k) == IF k = 0 THEN 1 ELSE 2 * Pow2(k - 1)

RECURSIVE Reverse(_)
Reverse(s) == IF s = <<>> THEN <<>> ELSE Reverse(Tail(s)) \o <<Head(s)>>

RECURSIVE Zeros(_)
Zeros(k) == IF k <= 0 THEN <<>> ELSE <<0>> \o Zeros(k - 1)

\* ------------------------------------------------------------ struct.pack / struct.unpack

\* the class attributes width and format of NumberBase's concrete types
Width(cls) ==
  CASE cls \in {"Char", "UChar"} -> 1
    [] cls \in {"Short", "UShort"} -> 2
    [] cls \in {"Int", "UInt", "Float"} -> 4
    [] cls \in {"Int64", "UInt64", "Double"} -> 8

Format(cls) ==
  CASE cls = "Char" -> "b" [] cls = "UChar" -> "B"
    [] cls = "Short" -> "h" [] cls = "UShort" -> "H"
    [] cls = "Int" -> "i" [] cls = "UInt" -> "I"
    [] cls = "Int64" -> "q" [] cls = "UInt64" -> "Q"
    [] cls = "Float" -> "f" [] cls = "Double" -> "d"

NumberClasses == {"Char", "UChar", "Short", "UShort", "Int", "UInt", "Int64", "UInt64", "Float", "Double"}

IsSignedFormat(fmt) == fmt \in {"b", "h", "i", "q"}
IsFloatFormat(fmt) == fmt \in {"f", "d"}

\* the w low bytes of v, least significant first (two's complement for v < 0)
RECURSIVE LowBytes(_, _)
LowBytes(v, w) == IF w = 0 THEN <<>> ELSE <<v % 256>> \o LowBytes(v \div 256, w - 1)

\* v with its w low bytes shifted out
RECURSIVE ShiftOut(_, _)
ShiftOut(v, w) == IF w = 0 THEN v ELSE ShiftOut(v \div 256, w - 1)

\* struct's range check of an integer against a format of w bytes
InFormatRange(fmt, w, v) ==
  IF IsSignedFormat(fmt)
    THEN ShiftOut(v, w - 1) \in -128..127
    ELSE v >= 0 /\ ShiftOut(v, w) = 0

\* MSB-first binary digits of m > 0
RECURSIVE BitsOf(_)
BitsOf(m) == IF m <= 1 THEN <<m>> ELSE BitsOf(m \div 2) \o <<m % 2>>

\* the number written MSB-first in base b
RECURSIVE IntOf(_, _)
IntOf(digits, b) ==
  IF digits = <<>> THEN 0
  ELSE IntOf(SubSeq(digits, 1, Len(digits) - 1), b) * b + digits[Len(digits)]

RECURSIVE StripTrailingZeros(_)
StripTrailingZeros(s) ==
  IF s = <<>> \/ s[Len(s)] # 0 THEN s ELSE StripTrailingZeros(SubSeq(s, 1, Len(s) - 1))

PadLeft(s, n) == Zeros(n - Len(s)) \o s
PadRight(s, n) == s \o Zeros(n - Len(s))

\* m / 2^k rounded to the nearest integer, ties to even (the C double -> float cast)
RoundHalfEven(m, k) ==
  LET d == Pow2(k)
      q == m \div d
      r == m % d
  IN IF 2 * r > d \/ (2 * r = d /\ q % 2 = 1) THEN q + 1 ELSE q

RECURSIVE BitsToBytes(_)
BitsToBytes(bits) ==
  IF bits = <<>> THEN <<>>
  ELSE <<IntOf(SubSeq(bits, 1, 8), 2)>> \o BitsToBytes(SubSeq(bits, 9, Len(bits)))

RECURSIVE BytesToBits(_)
BytesToBits(bytes) ==
  IF bytes = <<>> THEN <<>>
  ELSE PadLeft(BitsOf(Head(bytes)), 8) \o BytesToBits(Tail(bytes))

\* The IEEE-754 bits (sign, eb exponent bits, fb fraction bits) of a float
\* value, or <<>> when the value overflows the format (OverflowError).
FloatBits(v, eb, fb) ==
  LET bias == Pow2(eb - 1) - 1
      emin == 1 - bias
      ones == [i \in 1..eb |-> 1]
  IN
  CASE v.k = "inf" -> <<v.n>> \o ones \o Zeros(fb)
    [] v.k = "nan" -> <<0>> \o ones \o <<1>> \o Zeros(fb - 1)
    [] OTHER ->
      LET sg == v.s[1]
          m == v.s[2]
          e == v.s[3]
      IN
      IF m = 0 THEN <<sg>> \o Zeros(eb + fb)
      ELSE
        LET L == Len(BitsOf(m))
            q == e + L - 1
        IN
        IF q >= emin
          THEN \* normal: keep fb + 1 significant bits
            LET m2 == IF L > fb + 1 THEN RoundHalfEven(m, L - (fb + 1)) ELSE m
                L2 == Len(BitsOf(m2))
                carry == L > fb + 1 /\ L2 > fb + 1
                q2 == IF carry THEN q + 1 ELSE q
                frac == IF carry THEN Zeros(fb) ELSE PadRight(Tail(BitsOf(m2)), fb)
            IN IF q2 > bias THEN <<>>
               ELSE <<sg>> \o PadLeft(BitsOf(q2 + bias), eb) \o frac
          ELSE \* subnormal: the fraction counts units of 2^(emin - fb)
            LET k == e - (emin - fb)
            IN IF k >= 0
                 THEN <<sg>> \o Zeros(eb) \o PadLeft(BitsOf(m) \o Zeros(k), fb)
                 ELSE LET m2 == IF -k > 30 THEN 0 ELSE RoundHalfEven(m, -k)
                      IN IF m2 = 0 THEN <<sg>> \o Zeros(eb + fb)
                         ELSE IF Len(BitsOf(m2)) > fb
                           THEN <<sg>> \o PadLeft(<<1>>, eb) \o Zeros(fb)
                           ELSE <<sg>> \o Zeros(eb) \o PadLeft(BitsOf(m2), fb)

\* the float value of IEEE-754 bits
FloatOfBits(bits, eb, fb) ==
  LET bias == Pow2(eb - 1) - 1
      emin == 1 - bias
      sg == bits[1]
      E == IntOf(SubSeq(bits, 2, eb + 1), 2)
      fr == StripTrailingZeros(SubSeq(bits, eb + 2, eb + 1 + fb))
  IN
  IF E = Pow2(eb) - 1 THEN (IF fr = <<>> THEN InfV(sg) ELSE NanV)
  ELSE IF E = 0
    THEN (IF fr = <<>> THEN FloatV(sg, 0, 0)
          ELSE FloatV(sg, IntOf(fr, 2), emin - Len(fr)))
    ELSE FloatV(sg, IntOf(<<1>> \o fr, 2), E - bias - Len(fr))

ExpBits(fmt) == IF fmt = "f" THEN 8 ELSE 11
FracBits(fmt) == IF fmt = "f" THEN 23 ELSE 52

\* struct.pack(endian + fmt, v) for a format of w bytes: [out, err]
struct_pack(endian, fmt, w, v) ==
  LET order(bytes) == IF endian = BIG_ENDIAN THEN bytes ELSE Reverse(bytes)
  IN
  IF IsFloatFormat(fmt)
    THEN
      CASE v.k = "int" ->
             \* an integer is converted to a float first
             LET a == IF v.n < 0 THEN -v.n ELSE v.n
                 tz == IF a = 0 THEN 0 ELSE Len(BitsOf(a)) - Len(StripTrailingZeros(BitsOf(a)))
                 f == IF a = 0 THEN FloatV(0, 0, 0)
                      ELSE FloatV(IF v.n < 0 THEN 1 ELSE 0, a \div Pow2(tz), tz)
             IN [out |-> order(BitsToBytes(FloatBits(f, ExpBits(fmt), FracBits(fmt)))), err |-> "ok"]
        [] v.k \in {"float", "inf", "nan"} ->
             LET bits == FloatBits(v, ExpBits(fmt), FracBits(fmt))
             IN IF bits = <<>> THEN [out |-> <<>>, err |-> "OverflowError"]
                ELSE [out |-> order(BitsToBytes(bits)), err |-> "ok"]
        [] OTHER -> [out |-> <<>>, err |-> "struct.error"]
    ELSE
      IF v.k = "int" /\ InFormatRange(fmt, w, v.n)
        THEN [out |-> order(Reverse(LowBytes(v.n, w))), err |-> "ok"]
        ELSE [out |-> <<>>, err |-> "struct.error"]

\* struct.unpack(endian + fmt, data)[0] for len(data) = the format's width
struct_unpack(endian, fmt, data) ==
  LET be == IF endian = BIG_ENDIAN THEN data ELSE Reverse(data)
  IN
  IF IsFloatFormat(fmt) THEN FloatOfBits(BytesToBits(be), ExpBits(fmt), FracBits(fmt))
  ELSE IF IsSignedFormat(fmt) /\ be[1] >= 128
    THEN IntV(IntOf(<<be[1] - 256>> \o Tail(be), 256))
    ELSE IntV(IntOf(be, 256))

\* Python's == on two values
PyEq(a, b) ==
  CASE a.k = "nan" \/ b.k = "nan" -> FALSE
    [] a.k = "float" /\ b.k = "float" /\ a.s[2] = 0 /\ b.s[2] = 0 -> TRUE
    [] {a.k, b.k} = {"str", "ustr"} -> a.s = b.s /\ \A i \in 1..Len(a.s) : a.s[i] < 128
    [] a.k # b.k -> FALSE
    [] OTHER -> a = b

\* ------------------------------------------------------------ NumberBase

\* a parse that decodes what it read, zero-padded, before it checks the length
NumberBase_pfp__parse_partial(cls, endian, value, raw, stream) ==
  LET w == Width(cls)
      data == SubSeq(stream, 1, IF Len(stream) < w THEN Len(stream) ELSE w)
      rest == SubSeq(stream, Len(data) + 1, Len(stream))
      v == struct_unpack(endian, Format(cls), PadRight(data, w))
  IN IF Len(data) < w
       THEN [value |-> v, raw |-> StrV(data), rest |-> rest, ret |-> NoneV, err |-> "PrematureEOF"]
       ELSE [value |-> v, raw |-> StrV(data), rest |-> rest, ret |-> IntV(w), err |-> "ok"]

\* NumberBase._pfp__parse on the bytes left in the stream:
\* [value, raw, rest, ret, err]; raw is _pfp__data
NumberBase_pfp__parse(cls, endian, value, raw, stream) ==
  LET w == Width(cls)
      data == SubSeq(stream, 1, IF Len(stream) < w THEN Len(stream) ELSE w)
      rest == SubSeq(stream, Len(data) + 1, Len(stream))
  IN IF Len(data) < w
       THEN [value |-> value, raw |-> raw, rest |-> rest, ret |-> NoneV, err |-> "PrematureEOF"]
       ELSE [value |-> struct_unpack(endian, Format(cls), data), raw |-> StrV(data),
             rest |-> rest, ret |-> IntV(w), err |-> "ok"]

\* NumberBase._pfp__build(stream=None): [out, err]
NumberBase_pfp__build(cls, endian, value) ==
  struct_pack(endian, Format(cls), Width(cls), value)

\* ------------------------------------------------------------ String / WString

ReadSize(cls) == IF cls = "WString" THEN 2 ELSE 1
Terminator(cls) == IF cls = "WString" THEN <<0, 0>> ELSE <<0>>

\* the loop of String._pfp__parse: [res, rest, err]
RECURSIVE String_scan(_, _, _, _)
String_scan(read_size, terminator, stream, res) ==
  LET byte == SubSeq(stream, 1, IF Len(stream) < read_size THEN Len(stream) ELSE read_size)
      rest == SubSeq(stream, Len(byte) + 1, Len(stream))
  IN IF Len(byte) < read_size THEN [res |-> res, rest |-> rest, err |-> "PrematureEOF"]
     ELSE IF byte = terminator THEN [res |-> res, rest |-> rest, err |-> "ok"]
     ELSE String_scan(read_size, terminator, rest, res \o byte)

\* String._pfp__parse: [value, rest, ret, err]; the method has no return statement
String_pfp__parse(cls, value, stream) ==
  LET r == String_scan(ReadSize(cls), Terminator(cls), stream, <<>>)
  IN [value |-> IF r.err = "ok" THEN StrV(r.res) ELSE value,
      rest |-> r.rest, ret |-> NoneV, err |-> r.err]

\* str + "\x00" for the values a field can hold
StrConcat(value, tail) ==
  CASE value.k = "unset" -> [out |-> <<>>, err |-> "AttributeError"]
    [] value.k = "str" -> [out |-> value.s \o tail, err |-> "ok"]
    [] OTHER -> [out |-> <<>>, err |-> "TypeError"]

\* a build that does not add the terminator back
String_pfp__build_unterminated(value) == StrConcat(value, <<>>)

\* String._pfp__build(stream=None): [out, err]
String_pfp__build(value) == StrConcat(value, <<0>>)

\* the UTF-16 code units of code points
RECURSIVE Utf16Units(_)
Utf16Units(cps) ==
  IF cps = <<>> THEN <<>>
  ELSE LET c == Head(cps)
       IN (IF c < 65536 THEN <<c>>
           ELSE <<55296 + ((c - 65536) \div 1024), 56320 + ((c - 65536) % 1024)>>)
          \o Utf16Units(Tail(cps))

RECURSIVE UnitsLE(_)
UnitsLE(units) ==
  IF units = <<>> THEN <<>>
  ELSE <<Head(units) % 256, Head(units) \div 256>> \o UnitsLE(Tail(units))

\* text.encode("utf-16le"): [out, err]
utf16le_encode(value) ==
  CASE value.k = "unset" -> [out |-> <<>>, err |-> "AttributeError"]
    [] value.k = "ustr" -> [out |-> UnitsLE(Utf16Units(value.s)), err |-> "ok"]
    [] value.k = "str" ->
         \* a Python 2 str is decoded as ASCII first
         IF \A i \in 1..Len(value.s) : value.s[i] < 128
           THEN [out |-> UnitsLE(value.s), err |-> "ok"]
           ELSE [out |-> <<>>, err |-> "UnicodeDecodeError"]
    [] OTHER -> [out |-> <<>>, err |-> "AttributeError"]

RECURSIVE LEUnits(_)
LEUnits(bytes) ==
  IF Len(bytes) < 2 THEN <<>>
  ELSE <<bytes[1] + 256 * bytes[2]>> \o LEUnits(SubSeq(bytes, 3, Len(bytes)))

\* code points of UTF-16 code units; <<-1>> marks an illegal surrogate
RECURSIVE Utf16Points(_)
Utf16Points(units) ==
  IF units = <<>> THEN <<>>
  ELSE LET u == Head(units)
       IN IF u \in 55296..56319
            THEN IF Len(units) >= 2 /\ units[2] \in 56320..57343
                   THEN <<65536 + (u - 55296) * 1024 + (units[2] - 56320)>>
                        \o Utf16Points(Tail(Tail(units)))
                   ELSE <<-1>>
          ELSE IF u \in 56320..57343 THEN <<-1>>
          ELSE <<u>> \o Utf16Points(Tail(units))

\* bytes.decode("utf-16le"): [value, err]
utf16le_decode(bytes) ==
  LET cps == Utf16Points(LEUnits(bytes))
  IN IF Len(bytes) % 2 = 1 \/ \E i \in 1..Len(cps) : cps[i] = -1
       THEN [value |-> StrV(bytes), err |-> "UnicodeDecodeError"]
       ELSE [value |-> UStrV(cps), err |-> "ok"]

\* WString._pfp__parse: String's parse, then the value decoded in place
WString_pfp__parse(cls, value, stream) ==
  LET r == String_pfp__parse(cls, value, stream)
      d == utf16le_decode(r.value.s)
  IN IF r.err # "ok" THEN r
     ELSE [value |-> d.value, rest |-> r.rest, ret |-> NoneV, err |-> d.err]

\* WString._pfp__build(stream=None): [out, err]
WString_pfp__build(value) ==
  LET e == utf16le_encode(value)
  IN IF e.err # "ok" THEN e ELSE [out |-> e.out \o <<0, 0>>, err |-> "ok"]

TextClasses == {"String", "WString"}

\* _pfp__build of a field that is no container
Leaf_build(cls, endian, value) ==
  CASE cls = "String" -> String_pfp__build(value)
    [] cls = "WString" -> WString_pfp__build(value)
    [] OTHER -> NumberBase_pfp__build(cls, endian, value)

\* _pfp__parse of a field that is no container: [value, raw, rest, ret, err]
Leaf_parse(cls, endian, value, raw, stream) ==
  CASE cls = "String" ->
         LET r == String_pfp__parse(cls, value, stream)
         IN [value |-> r.value, raw |-> raw, rest |-> r.rest, ret |-> r.ret, err |-> r.err]
    [] cls = "WString" ->
         LET r == WString_pfp__parse(cls, value, stream)
         IN [value |-> r.value, raw |-> raw, rest |-> r.rest, ret |-> r.ret, err |-> r.err]
    [] OTHER -> NumberBase_pfp__parse(cls, endian, value, raw, stream)

\* the value a freshly constructed field reads as (the class attribute
\* NumberBase._pfp__value = 0; no other class or constructor sets one)
DefaultValue(cls) == IF cls \in NumberClasses THEN IntV(0) ELSE UnsetV

\* Field._pfp__set_value / _pfp__get_root_value on a value that is no Field
Field_pfp__set_value(new_val) == new_val

\* ------------------------------------------------------------ objects

RefV(id) == Val("ref", id, <<>>)
IsField(v) == v.k = "ref"

\* get_value / PYVAL / Field._pfp__get_root_value: a Field's _pfp__value
\* ("unset" when the object has no such attribute), anything else as it is
get_value(h, v) == IF IsField(v) THEN h[v.n].value ELSE v

\* _pfp__name: not set at all, None, or "<base>[i][j].."
NameUnset == [k |-> "unset", base |-> "", idx |-> <<>>]
NameNone == [k |-> "none", base |-> "", idx |-> <<>>]
NameStr(base) == [k |-> "str", base |-> base, idx |-> <<>>]

\* "{}[{}]".format(name, x)
ItemName(name, x) ==
  [k |-> "str", base |-> IF name.k = "none" THEN "None" ELSE name.base, idx |-> Append(name.idx, x)]

EmptyMap == <<>>
MapPut(m, key, v) == [n \in DOMAIN m \cup {key} |-> IF n = key THEN v ELSE m[n]]

\* The object a constructor call leaves.  Field.__init__ sets _pfp__name to
\* None; Array.__init__ does not call it and sets width, field_cls and items;
\* Struct.__init__ sets the two child collections first.  attrs holds the plain
\* instance attributes that Struct.__setattr__ falls through to.
\* held: a variable of the driver refers to the object.
Field__init__(cls) ==
  [cls |-> cls, name |-> NameNone, value |-> DefaultValue(cls), raw |-> UnsetV,
   children |-> <<>>, cmap |-> EmptyMap, attrs |-> EmptyMap,
   width |-> NoneV, fcls |-> "", items |-> <<>>, held |-> TRUE]

Struct__init__ == Field__init__("Struct")

Array__init__(width, field_cls) ==
  [cls |-> "Array", name |-> NameUnset, value |-> UnsetV, raw |-> UnsetV,
   children |-> <<>>, cmap |-> EmptyMap, attrs |-> EmptyMap,
   width |-> width, fcls |-> field_cls, items |-> <<>>, held |-> TRUE]

\* a slot that holds no object
FreeSlot == [Field__init__("free") EXCEPT !.name = NameUnset, !.held = FALSE]

Live(h) == {i \in 1..Len(h) : h[i].cls # "free"}

\* the lowest free slot, 0 when the heap is full
Alloc(h) ==
  IF \A i \in 1..Len(h) : h[i].cls # "free" THEN 0
  ELSE CHOOSE i \in 1..Len(h) : h[i].cls = "free" /\ \A j \in 1..(i - 1) : h[j].cls # "free"

RangeOf(f) == {f[x] : x \in DOMAIN f}

\* the objects some live object or the driver refers to
Referenced(h) ==
  {i \in Live(h) : h[i].held}
  \cup UNION {RangeOf(h[i].children) \cup RangeOf(h[i].items) \cup RangeOf(h[i].cmap)
              \cup {h[i].attrs[n].n : n \in {m \in DOMAIN h[i].attrs : IsField(h[i].attrs[m])}}
              \cup (IF IsField(h[i].width) THEN {h[i].width.n} ELSE {}) : i \in Live(h)}

\* drop the objects nothing refers to
Collect(h) ==
  LET used == Referenced(h)
  IN [i \in 1..Len(h) |-> IF i \in used THEN h[i] ELSE FreeSlot]

\* an add_child that puts the child first
Struct_pfp__add_child_front(h, s, name, child) ==
  [h EXCEPT ![s].children = <<child>> \o @,
            ![child].name = NameStr(name),
            ![s].cmap = MapPut(@, name, child)]

\* Struct._pfp__add_child(name, child)
Struct_pfp__add_child(h, s, name, child) ==
  [h EXCEPT ![s].children = Append(@, child),
            ![child].name = NameStr(name),
            ![s].cmap = MapPut(@, name, child)]

\* self.<name> on a Struct: Python looks the name up on the object first and
\* calls Struct.__getattr__ only when that fails: [ret, err]
Struct__getattr__(h, s, name) ==
  IF name \in DOMAIN h[s].attrs THEN [ret |-> h[s].attrs[name], err |-> "ok"]
  ELSE IF name \in DOMAIN h[s].cmap THEN [ret |-> RefV(h[s].cmap[name]), err |-> "ok"]
  ELSE [ret |-> NoneV, err |-> "AttributeError"]

\* a __setattr__ that looks the child up in the ordered children, by the name
\* stamped on it, when the value is a scalar
Struct__setattr___stamped(h, s, name, value) ==
  LET hits == {i \in 1..Len(h[s].children) : h[h[s].children[i]].name = NameStr(name)}
      c == IF hits = {} THEN h[s].cmap[name]
           ELSE h[s].children[CHOOSE i \in hits : \A j \in hits : i <= j]
  IN
  IF name \in DOMAIN h[s].cmap
    THEN IF ~IsField(value)
           THEN [h |-> [h EXCEPT ![c].value = value], ret |-> RefV(c)]
           ELSE [h |-> [h EXCEPT ![s].cmap = MapPut(@, name, value.n)], ret |-> value]
    ELSE [h |-> [h EXCEPT ![s].attrs = MapPut(@, name, value)], ret |-> NoneV]

\* Struct.__setattr__(name, value): [h, ret]
Struct__setattr__(h, s, name, value) ==
  IF name \in DOMAIN h[s].cmap
    THEN IF ~IsField(value)
           THEN [h |-> [h EXCEPT ![h[s].cmap[name]].value = value],
                 ret |-> RefV(h[s].cmap[name])]
           ELSE [h |-> [h EXCEPT ![s].cmap = MapPut(@, name, value.n)], ret |-> value]
    ELSE [h |-> [h EXCEPT ![s].attrs = MapPut(@, name, value)], ret |-> NoneV]

\* ------------------------------------------------------------ parse

\* _pfp__parse of the object id on the bytes left in the stream:
\* [h, rest, ret, err, calls]; calls lists the children a Struct called parse on
RECURSIVE Field_pfp__parse(_, _, _)
RECURSIVE Struct_parse_loop(_, _, _, _, _)
RECURSIVE Array_parse_loop(_, _, _, _, _)

\* Struct._pfp__parse: res = 0; for child in children: res += child.parse(stream)
Struct_pfp__parse(h, id, stream) == Struct_parse_loop(h, h[id].children, stream, 0, <<>>)

Struct_parse_loop(h, kids, stream, res, calls) ==
  IF kids = <<>>
    THEN [h |-> h, rest |-> stream, ret |-> IntV(res), err |-> "ok", calls |-> calls]
    ELSE LET r == Field_pfp__parse(h, Head(kids), stream)
             called == Append(calls, Head(kids))
         IN IF r.err # "ok"
              THEN [h |-> r.h, rest |-> r.rest, ret |-> NoneV, err |-> r.err, calls |-> called]
            ELSE IF r.ret.k # "int"
              THEN \* res += None
                   [h |-> r.h, rest |-> r.rest, ret |-> NoneV, err |-> "TypeError", calls |-> called]
            ELSE Struct_parse_loop(r.h, Tail(kids), r.rest, res + r.ret.n, called)

\* Array._pfp__parse: self.items = []; for x in range(PYVAL(self.width)): ...
\* The method has no return statement.
Array_pfp__parse(h, id, stream) ==
  LET h1 == Collect([h EXCEPT ![id].items = <<>>])
      n == get_value(h, h[id].width)
      fail(e) == [h |-> h1, rest |-> stream, ret |-> NoneV, err |-> e, calls |-> <<>>]
  IN IF n.k = "unset" THEN fail("AttributeError")
     ELSE IF n.k # "int" THEN fail("TypeError")
     ELSE Array_parse_loop(h1, id, stream, 0, n.n)

Array_parse_loop(h, id, stream, x, n) ==
  IF x >= n
    THEN [h |-> h, rest |-> stream, ret |-> NoneV, err |-> "ok", calls |-> <<>>]
    ELSE IF h[id].name.k = "unset"
      THEN \* self._pfp__name does not exist; the new field is dropped
           [h |-> h, rest |-> stream, ret |-> NoneV, err |-> "AttributeError", calls |-> <<>>]
      ELSE IF Alloc(h) = 0
      THEN [h |-> h, rest |-> stream, ret |-> NoneV, err |-> "HeapBound", calls |-> <<>>]
      ELSE LET field == Alloc(h)
               h1 == [h EXCEPT ![field] = [Field__init__(h[id].fcls) EXCEPT
                                             !.name = ItemName(h[id].name, x), !.held = FALSE]]
               r == Field_pfp__parse(h1, field, stream)
           IN IF r.err # "ok"
                THEN [h |-> Collect(r.h), rest |-> r.rest, ret |-> NoneV, err |-> r.err,
                      calls |-> <<>>]
                ELSE Array_parse_loop([r.h EXCEPT ![id].items = Append(@, field)],
                                      id, r.rest, x + 1, n)

Field_pfp__parse(h, id, stream) ==
  CASE h[id].cls = "Struct" -> Struct_pfp__parse(h, id, stream)
    [] h[id].cls = "Array" -> Array_pfp__parse(h, id, stream)
    [] OTHER ->
         LET r == Leaf_parse(h[id].cls, BIG_ENDIAN, h[id].value, h[id].raw, stream)
         IN [h |-> [h EXCEPT ![id].value = r.value, ![id].raw = r.raw],
             rest |-> r.rest, ret |-> r.ret, err |-> r.err, calls |-> <<>>]

\* ------------------------------------------------------------ build

\* _pfp__build(stream=None) of the object id: [out, err]
RECURSIVE Field_pfp__build(_, _)
RECURSIVE Build_loop(_, _, _)

\* res = ""; for child in <ids>: res += child._pfp__build(stream)
Build_loop(h, ids, res) ==
  IF ids = <<>> THEN [out |-> res, err |-> "ok"]
  ELSE LET r == Field_pfp__build(h, Head(ids))
       IN IF r.err # "ok" THEN [out |-> <<>>, err |-> r.err]
          ELSE Build_loop(h, Tail(ids), res \o r.out)

Struct_pfp__build(h, id) == Build_loop(h, h[id].children, <<>>)

Array_pfp__build(h, id) == Build_loop(h, h[id].items, <<>>)

Field_pfp__build(h, id) ==
  CASE h[id].cls = "Struct" -> Struct_pfp__build(h, id)
    [] h[id].cls = "Array" -> Array_pfp__build(h, id)
    [] OTHER -> Leaf_build(h[id].cls, BIG_ENDIAN, h[id].value)

\* ------------------------------------------------------------ in-place operators

RECURSIVE PyAnd(_, _)
PyAnd(a, b) ==
  IF a = 0 \/ b = 0 THEN 0
  ELSE IF a = -1 THEN b
  ELSE IF b = -1 THEN a
  ELSE 2 * PyAnd(a \div 2, b \div 2) + (a % 2) * (b % 2)

RECURSIVE PyXor(_, _)
PyXor(a, b) ==
  IF a = 0 THEN b
  ELSE IF b = 0 THEN a
  ELSE IF a = -1 THEN -b - 1
  ELSE IF b = -1 THEN -a - 1
  ELSE 2 * PyXor(a \div 2, b \div 2) + (((a % 2) + (b % 2)) % 2)

RECURSIVE PyPow(_, _)
PyPow(a, k) == IF k = 0 THEN 1 ELSE a * PyPow(a, k - 1)

RECURSIVE Repeat(_, _)
Repeat(s, k) == IF k <= 0 THEN <<>> ELSE s \o Repeat(s, k - 1)

InPlaceOps == {"iadd", "isub", "imul", "idiv", "iand", "ixor", "ifloordiv", "imod", "ipow",
               "ilshift", "irshift"}

\* value <op>= other for a Python 2 value and an integer other >= 0: [value, err]
PyInPlace(op, value, other) ==
  LET v == value.n
      ok(n) == [value |-> IntV(n), err |-> "ok"]
      raise(e) == [value |-> value, err |-> e]
  IN
  CASE value.k = "int" ->
         (CASE op = "iadd" -> ok(v + other)
            [] op = "isub" -> ok(v - other)
            [] op = "imul" -> ok(v * other)
            [] op \in {"idiv", "ifloordiv"} ->
                 IF other = 0 THEN raise("ZeroDivisionError") ELSE ok(v \div other)
            [] op = "imod" -> IF other = 0 THEN raise("ZeroDivisionError") ELSE ok(v % other)
            [] op = "iand" -> ok(PyAnd(v, other))
            [] op = "ixor" -> ok(PyXor(v, other))
            [] op = "ipow" -> ok(PyPow(v, other))
            [] op = "ilshift" -> ok(v * Pow2(other))
            [] op = "irshift" -> ok(v \div Pow2(other)))
    [] value.k = "str" /\ op = "imul" -> [value |-> StrV(Repeat(value.s, other)), err |-> "ok"]
    [] OTHER -> raise("TypeError")

\* NumberBase.__iadd__ .. __irshift__: self._pfp__value <op>= other, and no
\* return statement: [value, ret, err]
NumberBase__iop__(op, value, other) ==
  LET r == PyInPlace(op, value, other)
  IN [value |-> r.value, ret |-> NoneV, err |-> r.err]

\* x <op>= other for whatever x is bound to: [h, ret, err]; ret is what x is
\* bound to afterwards
AugAssign(h, x, op, other) ==
  IF IsField(x)
    THEN IF h[x.n].cls \in NumberClasses
           THEN LET r == NumberBase__iop__(op, h[x.n].value, other)
                IN [h |-> [h EXCEPT ![x.n].value = r.value],
                    ret |-> IF r.err = "ok" THEN r.ret ELSE x, err |-> r.err]
           ELSE [h |-> h, ret |-> x, err |-> "TypeError"]
    ELSE LET r == PyInPlace(op, x, other)
         IN [h |-> h, ret |-> r.value, err |-> r.err]

\* ------------------------------------------------------------ Array items

\* Python's list index: the 1-based position idx names, 0 for an IndexError
ListIndex(len, idx) ==
  IF idx >= 0 /\ idx < len THEN idx + 1
  ELSE IF idx < 0 /\ idx >= -len THEN idx + len + 1
  ELSE 0

\* Array.__getitem__(idx): [ret, err]
Array__getitem__(h, a, idx) ==
  LET i == ListIndex(Len(h[a].items), idx)
  IN IF i = 0 THEN [ret |-> NoneV, err |-> "IndexError"]
     ELSE [ret |-> RefV(h[a].items[i]), err |-> "ok"]

\* Array.__setitem__(idx, value): [h, err]
Array__setitem__(h, a, idx, value) ==
  LET i == ListIndex(Len(h[a].items), idx)
  IN IF i = 0 THEN [h |-> h, err |-> "IndexError"]
     ELSE IF IsField(value)
       THEN [h |-> Collect([h EXCEPT ![a].items[i] = value.n]), err |-> "ok"]
       ELSE [h |-> [h EXCEPT ![h[a].items[i]].value = Field_pfp__set_value(value)], err |-> "ok"]

\* ------------------------------------------------------------ the driver's operations

\* what the last operation was, on what, and what it returned or raised
Last0 ==
  [op |-> "init", target |-> 0, name |-> "", arg |-> NoneV, opname |-> "", ret |-> NoneV,
   err |-> "ok", out |-> <<>>, calls |-> <<>>, stream |-> <<>>, rest |-> <<>>]

MaxObjs == 5
MaxVal == 7

Ids == Live(heap)
Structs == {i \in Ids : heap[i].cls = "Struct"}
Arrays == {i \in Ids : heap[i].cls = "Array"}
Numbers == {i \in Ids : heap[i].cls \in NumberClasses}

\* the objects below id in the tree of children and items
RECURSIVE Below(_, _)
Below(h, id) ==
  LET kids == {h[id].children[i] : i \in 1..Len(h[id].children)}
              \cup {h[id].items[i] : i \in 1..Len(h[id].items)}
  IN kids \cup UNION {Below(h, k) : k \in kids}

\* s._pfp__add_child(name, child), for a child that has no parent yet
AddChild(s, name, child) ==
  /\ child # s
  /\ heap[child].name.k # "str"
  /\ s \notin Below(heap, child)
  /\ heap' = Struct_pfp__add_child(heap, s, name, child)
  /\ attached' = Append(attached, <<s, name, child>>)
  /\ readSince' = FALSE
  /\ last' = [Last0 EXCEPT !.op = "add_child", !.target = s, !.name = name, !.arg = RefV(child)]
  /\ UNCHANGED rt

\* s.<name>
GetAttr(s, name) ==
  LET r == Struct__getattr__(heap, s, name)
  IN /\ last' = [Last0 EXCEPT !.op = "getattr", !.target = s, !.name = name,
                              !.ret = r.ret, !.err = r.err]
     /\ readSince' = (readSince \/ r.err = "ok")
     /\ UNCHANGED <<heap, attached, rt>>

\* s.<name> = value
SetAttr(s, name, value) ==
  LET r == Struct__setattr__(heap, s, name, value)
  IN /\ heap' = r.h
     /\ last' = [Last0 EXCEPT !.op = "setattr", !.target = s, !.name = name, !.arg = value,
                              !.ret = r.ret]
     /\ UNCHANGED <<attached, readSince, rt>>

Capped(v) == v.k = "int" => (v.n <= MaxVal /\ -v.n <= MaxVal)

\* f <op>= other, for a variable f of the driver that holds the field
InPlace(f, op, other) ==
  LET r == AugAssign(heap, RefV(f), op, other)
  IN /\ Capped(r.h[f].value)
     /\ heap' = r.h
     /\ last' = [Last0 EXCEPT !.op = "inplace", !.target = f, !.opname = op,
                              !.arg = IntV(other), !.ret = r.ret, !.err = r.err]
     /\ UNCHANGED <<attached, readSince, rt>>

\* s.<name> <op>= other: read s.<name>, apply the operator, write the result
\* back to s.<name>
InPlaceByName(s, name, op, other) ==
  LET g == Struct__getattr__(heap, s, name)
      a == AugAssign(heap, g.ret, op, other)
      w == Struct__setattr__(a.h, s, name, a.ret)
      h2 == IF g.err # "ok" THEN heap ELSE IF a.err # "ok" THEN a.h ELSE w.h
      err == IF g.err # "ok" THEN g.err ELSE a.err
  IN /\ g.err = "ok" => (Capped(a.ret) /\ (IsField(g.ret) => Capped(a.h[g.ret.n].value)))
     /\ heap' = h2
     /\ last' = [Last0 EXCEPT !.op = "inplace_by_name", !.target = s, !.name = name,
                              !.opname = op, !.arg = IntV(other),
                              !.ret = IF err = "ok" THEN a.ret ELSE NoneV, !.err = err]
     /\ readSince' = (readSince \/ g.err = "ok")
     /\ UNCHANGED <<attached, rt>>

\* field._pfp__parse(StringIO(stream))
Parse(id, stream) ==
  LET r == Field_pfp__parse(heap, id, stream)
  IN /\ r.err # "HeapBound"
     /\ heap' = r.h
     /\ last' = [Last0 EXCEPT !.op = "parse", !.target = id, !.ret = r.ret, !.err = r.err,
                              !.calls = r.calls, !.stream = stream, !.rest = r.rest]
     /\ UNCHANGED <<attached, readSince, rt>>

\* field._pfp__build()
Build(id) ==
  LET r == Field_pfp__build(heap, id)
  IN /\ last' = [Last0 EXCEPT !.op = "build", !.target = id, !.out = r.out, !.err = r.err]
     /\ UNCHANGED <<heap, attached, readSince, rt>>

\* array[idx]
GetItem(a, idx) ==
  LET r == Array__getitem__(heap, a, idx)
  IN /\ last' = [Last0 EXCEPT !.op = "getitem", !.target = a, !.arg = IntV(idx),
                              !.ret = r.ret, !.err = r.err]
     /\ UNCHANGED <<heap, attached, readSince, rt>>

\* array[idx] = value
SetItem(a, idx, value) ==
  LET r == Array__setitem__(heap, a, idx, value)
  IN /\ IsField(value) => heap[value.n].cls \notin {"Struct", "Array"}
     /\ heap' = r.h
     /\ last' = [Last0 EXCEPT !.op = "setitem", !.target = a, !.arg = IntV(idx),
                              !.ret = value, !.err = r.err]
     /\ UNCHANGED <<attached, readSince, rt>>

\* get_value(field): the read of field._pfp__value
GetValue(id) ==
  /\ last' = [Last0 EXCEPT !.op = "get_value", !.target = id, !.ret = get_value(heap, RefV(id)),
                           !.err = IF heap[id].value.k = "unset" THEN "AttributeError" ELSE "ok"]
  /\ UNCHANGED <<heap, attached, readSince, rt>>

\* the read of field._pfp__name
GetName(id) ==
  /\ last' = [Last0 EXCEPT !.op = "get_name", !.target = id,
                           !.name = IF heap[id].name.k = "str" THEN heap[id].name.base ELSE "",
                           !.err = IF heap[id].name.k = "unset" THEN "AttributeError" ELSE "ok"]
  /\ UNCHANGED <<heap, attached, readSince, rt>>

NoRT ==
  [pc |-> "off", cls |-> "", endian |-> BIG_ENDIAN, v |-> NoneV, data |-> <<>>,
   out |-> UnsetV, err |-> "ok"]

\* the heap after the driver constructed objs
HeapOf(objs) == objs \o [i \in 1..(MaxObjs - Len(objs)) |-> FreeSlot]

\* ------------------------------------------------------------ the Struct machine

Names == {"a", "b"}
Scalars == {IntV(6)}
Streams == {<<1, 2, 104, 0, 65, 0, 0, 0>>, <<7>>}
ChildClasses == <<"Char", "String", "WString", "Struct">>

\* root = Struct(); then two fields of any two classes
Init ==
  /\ \E i \in DOMAIN ChildClasses, j \in DOMAIN ChildClasses :
       /\ i <= j
       /\ heap = HeapOf(<<Struct__init__, Field__init__(ChildClasses[i]),
                          Field__init__(ChildClasses[j])>>)
  /\ last = Last0
  /\ attached = <<>>
  /\ readSince = FALSE
  /\ rt = NoRT

Fields == Ids \ {1}

Next ==
  \/ \E s \in Structs, name \in Names, child \in Fields : AddChild(s, name, child)
  \/ \E name \in Names : GetAttr(1, name)
  \/ \E name \in Names, value \in Scalars \cup {RefV(i) : i \in Fields} :
       (IsField(value) => name \in DOMAIN heap[1].cmap) /\ SetAttr(1, name, value)
  \/ \E stream \in Streams : Parse(1, stream)
  \/ Build(1)

Spec == Init /\ [][Next]_vars

\* ------------------------------------------------------------ the in-place machine

Operands == {0, 2}

\* root = Struct(); x = Char()
InitInPlace ==
  /\ heap = HeapOf(<<Struct__init__, Field__init__("Char")>>)
  /\ last = Last0
  /\ attached = <<>>
  /\ readSince = FALSE
  /\ rt = NoRT

NextInPlace ==
  \/ AddChild(1, "a", 2)
  \/ \E value \in Scalars : SetAttr(1, "a", value)
  \/ \E op \in InPlaceOps, other \in Operands : InPlace(2, op, other)
  \/ \E op \in InPlaceOps, other \in Operands : InPlaceByName(1, "a", op, other)
  \/ GetAttr(1, "a")
  \/ Build(1)

SpecInPlace == InitInPlace /\ [][NextInPlace]_vars

\* ------------------------------------------------------------ the Array machine

Indices == -3..2
ArrayStreams == {<<0, 2, 104, 0, 105, 0>>, <<1>>}

\* root = Struct(); n = UShort(); xs = Array(2, Char) or xs = Array(n, String)
InitArray ==
  /\ \E xs \in {Array__init__(IntV(2), "Char"), Array__init__(RefV(2), "String")} :
       heap = HeapOf(<<Struct__init__, Field__init__("UShort"), xs>>)
  /\ last = Last0
  /\ attached = <<>>
  /\ readSince = FALSE
  /\ rt = NoRT

Held == {i \in Ids : heap[i].held}

NextArray ==
  \/ \E name \in Names, child \in Held \ {1} : AddChild(1, name, child)
  \/ \E id \in Held, stream \in ArrayStreams : Parse(id, stream)
  \/ \E id \in Held : Build(id)
  \/ \E a \in Arrays, idx \in Indices : GetItem(a, idx)
  \/ \E a \in Arrays, idx \in Indices, value \in Scalars \cup {RefV(2)} : SetItem(a, idx, value)
  \/ \E id \in Ids : GetValue(id)
  \/ \E id \in Ids : GetName(id)

SpecArray == InitArray /\ [][NextArray]_vars

\* ------------------------------------------------------------ round trip

\* sample values of each type: the ends of its range, zero, and values whose
\* bytes all differ.  Python str and unicode values may hold a NUL.
RTValues(cls) ==
  CASE cls = "Char" -> {IntV(n) : n \in {-128, -1, 0, 127}}
    [] cls = "UChar" -> {IntV(n) : n \in {0, 1, 128, 255}}
    [] cls = "Short" -> {IntV(n) : n \in {-32768, -2, 0, 258, 32767}}
    [] cls = "UShort" -> {IntV(n) : n \in {0, 258, 32768, 65535}}
    [] cls = "Int" -> {IntV(n) : n \in {-2147483647 - 1, -2, 0, 16909060, 2147483647}}
    [] cls = "UInt" -> {IntV(n) : n \in {0, 1, 16909060, 2147483647}}
    [] cls = "Int64" -> {IntV(n) : n \in {-2147483647 - 1, -2, 0, 16909060, 2147483647}}
    [] cls = "UInt64" -> {IntV(n) : n \in {0, 1, 16909060, 2147483647}}
    [] cls = "Float" -> {FloatV(0, 0, 0), FloatV(0, 1, 0), FloatV(1, 3, -1), FloatV(0, 5, -5),
                       FloatV(0, 16777215, 104), FloatV(1, 1, -149), FloatV(0, 3, -149),
                       FloatV(0, 1, -126), InfV(0), InfV(1)}
    [] cls = "Double" -> {FloatV(0, 0, 0), FloatV(0, 1, 0), FloatV(1, 3, -1), FloatV(0, 33554433, -3),
                        FloatV(0, 16777215, 104), FloatV(1, 1, -1074), FloatV(0, 1, 1023),
                        FloatV(0, 1073741823, 994), InfV(0), InfV(1)}
    [] cls = "String" -> {StrV(s) : s \in {<<>>, <<104, 105>>, <<255, 1>>, <<97, 0, 98>>, <<0>>}}
    [] cls = "WString" -> {UStrV(s) : s \in {<<>>, <<65>>, <<256, 1>>, <<65536>>, <<1114111, 228>>,
                                              <<65, 0, 66>>, <<0>>}}

RTClasses == NumberClasses \cup TextClasses

RTInit ==
  /\ rt \in {[pc |-> "set", cls |-> c, endian |-> en, v |-> v, data |-> <<>>,
              out |-> UnsetV, err |-> "ok"] :
               c \in RTClasses, en \in {BIG_ENDIAN, LITTLE_ENDIAN}, v \in UNION {RTValues(c2) : c2 \in RTClasses}}
  /\ rt.v \in RTValues(rt.cls)
  /\ heap = HeapOf(<<>>)
  /\ last = Last0
  /\ attached = <<>>
  /\ readSince = FALSE

\* field = cls(); field._pfp__set_value(v); data = field._pfp__build()
RTBuild ==
  /\ rt.pc = "set"
  /\ LET b == Leaf_build(rt.cls, rt.endian, Field_pfp__set_value(rt.v))
     IN rt' = [rt EXCEPT !.pc = IF b.err = "ok" THEN "built" ELSE "failed",
                         !.data = b.out, !.err = b.err]
  /\ UNCHANGED <<heap, last, attached, readSince>>

\* fresh = cls(); fresh._pfp__parse(stream over data)
RTParse ==
  /\ rt.pc = "built"
  /\ LET p == Leaf_parse(rt.cls, rt.endian, DefaultValue(rt.cls), UnsetV, rt.data)
     IN rt' = [rt EXCEPT !.pc = "parsed", !.out = p.value, !.err = p.err]
  /\ UNCHANGED <<heap, last, attached, readSince>>

RTNext == RTBuild \/ RTParse

SpecRT == RTInit /\ [][RTNext]_vars

\* does a text value hold its type's terminator code unit?
HasTerminator(v) == \E i \in 1..Len(v.s) : v.s[i] = 0

RoundTrips == rt.err = "ok" /\ PyEq(rt.out, rt.v)

\* the values of a type's domain: for the text types, the texts that hold no
\* terminator code unit (build appends one terminator, parse stops at the first)
ValidValue(cls, v) == ~(cls \in TextClasses /\ HasTerminator(v))

\* C1: for every concrete field type, both endiannesses and every valid value
\* v of the type, build of a field set to v succeeds, and a fresh field of the
\* same type and endianness that parses the built bytes ends with a value
\* equal to v.
C1_RoundTrip ==
  /\ rt.pc # "failed"
  /\ (rt.pc = "parsed" /\ ValidValue(rt.cls, rt.v)) => RoundTrips

C1_Witness ==
  /\ rt.pc = "parsed" /\ rt.cls = "WString" /\ rt.v = UStrV(<<1114111, 228>>)
  /\ rt.data = <<255, 219, 255, 223, 228, 0, 0, 0>> /\ RoundTrips

\* ------------------------------------------------------------ Struct properties

\* the children attached to s by _pfp__add_child, in the order of the calls
RECURSIVE AttachedTo(_, _)
AttachedTo(log, s) ==
  IF log = <<>> THEN <<>>
  ELSE (IF Head(log)[1] = s THEN <<Head(log)[3]>> ELSE <<>>) \o AttachedTo(Tail(log), s)

\* c1.build() + ... + cn.build()
RECURSIVE ConcatBuilds(_, _)
ConcatBuilds(h, ids) ==
  IF ids = <<>> THEN <<>>
  ELSE Field_pfp__build(h, Head(ids)).out \o ConcatBuilds(h, Tail(ids))

AllBuild(h, ids) == \A i \in 1..Len(ids) : Field_pfp__build(h, ids[i]).err = "ok"

\* C2: build() of a Struct returns the builds of its children concatenated in
\* the order they were attached, whatever reads by name came in between (and
\* raises only when a child's build raises).
C2_BuildOrder ==
  (last.op = "build" /\ last.target = 1) =>
    LET kids == AttachedTo(attached, 1)
    IN IF AllBuild(heap, kids)
         THEN last.err = "ok" /\ last.out = ConcatBuilds(heap, kids)
         ELSE last.err # "ok"

C2_Witness ==
  /\ last.op = "build" /\ last.target = 1 /\ last.err = "ok"
  /\ readSince
  /\ Len(AttachedTo(attached, 1)) = 2
  /\ heap[2].cls = "Char" /\ heap[3].cls = "String"
  /\ AttachedTo(attached, 1) = <<3, 2>>
  /\ last.out = <<1, 2, 104, 0, 6>>

C4_ParseTotal ==
  (last.op = "parse" /\ last.target = 1 /\ last.err \notin {"PrematureEOF", "UnicodeDecodeError"}) =>
    /\ last.err = "ok"
    /\ last.calls = heap[1].children
    /\ last.ret = IntV(Len(last.stream) - Len(last.rest))

\* writing the Field F to an indexed name rebinds the index only: the ordered
\* children stay, and what build and parse of the Struct do stays
RebindsIndexOnly ==
  [][(last'.op = "setattr" /\ IsField(last'.arg) /\ last'.name \in DOMAIN heap[1].cmap) =>
       /\ heap'[1].cmap[last'.name] = last'.arg.n
       /\ heap'[1].children = heap[1].children
       /\ Field_pfp__build(heap', 1) = Field_pfp__build(heap, 1)
       /\ \A st \in Streams :
            Field_pfp__parse(heap', 1, st).calls = Field_pfp__parse(heap, 1, st).calls]_vars

\* C10 as stated: after a Field F is written to an indexed name, a read of the
\* name returns F, and the ordered children, build and parse are untouched.
C10_RebindThenRead ==
  (last.op = "setattr" /\ IsField(last.arg)) =>
    /\ Struct__getattr__(heap, 1, last.name).ret = last.arg
    /\ heap[1].children = AttachedTo(attached, 1)

\* C10 without the plain attribute: the read does return F when nothing on the
\* Struct object itself is named like the child
RebindThenReadUnshadowed ==
  (last.op = "setattr" /\ IsField(last.arg) /\ last.name \notin DOMAIN heap[1].attrs) =>
    /\ Struct__getattr__(heap, 1, last.name).ret = last.arg
    /\ heap[1].children = AttachedTo(attached, 1)

\* ------------------------------------------------------------ in-place properties

\* C9 as stated: after x <op>= k on a numeric field, reached by name or held
\* in a variable, the field is where it was and holds a number.
C9_InPlaceKeepsNumber ==
  /\ (last.op = "inplace_by_name" /\ last.err = "ok" /\ "a" \notin DOMAIN heap[1].attrs) =>
       /\ heap[1].cmap["a"] = 2
       /\ heap[2].value.k = "int"
  /\ (last.op = "inplace" /\ last.err = "ok") =>
       /\ last.ret = RefV(2)
       /\ heap[2].value.k = "int"

\* ------------------------------------------------------------ Array and field properties

\* C5: a numeric field whose parse gets fewer bytes than its width raises
\* PrematureEOF and keeps the value it had.
C5_ShortRead ==
  [][(last'.op = "parse" /\ last'.target \in Numbers
        /\ Len(last'.stream) < Width(heap[last'.target].cls)) =>
       /\ last'.err = "PrematureEOF"
       /\ heap'[last'.target].value = heap[last'.target].value]_vars

C5_Witness ==
  /\ last.op = "parse" /\ last.target = 2 /\ last.stream = <<1>>
  /\ last.err = "PrematureEOF"
  /\ heap[2].value = IntV(2)

\* C6 as stated: a parsed Array holds exactly N elements of its element type,
\* N the literal width or the width Field's value, and the parse reports the
\* bytes its elements consumed.
C6_ArrayParse ==
  (last.op = "parse" /\ last.target \in Arrays /\ last.err = "ok") =>
    LET a == heap[last.target]
    IN /\ Len(a.items) = get_value(heap, a.width).n
       /\ \A i \in 1..Len(a.items) : heap[a.items[i]].cls = a.fcls
       /\ last.ret = IntV(Len(last.stream) - Len(last.rest))

\* C7 as stated: an index outside [0, len) raises IndexOutOfRange.
C7_IndexBounds ==
  (last.op \in {"getitem", "setitem"} /\ last.arg.n \notin 0..(Len(heap[last.target].items) - 1)) =>
    last.err = "IndexError"

\* C8 as stated: the value and the name of a field that was only constructed
\* can be read without an exception.
C8_QueryFresh ==
  /\ (last.op = "get_name" /\ heap[last.target].held /\ heap[last.target].name.k # "str") =>
       last.err = "ok"
  /\ (last.op = "get_value" /\ heap[last.target].value = DefaultValue(heap[last.target].cls)) =>
       last.err = "ok"

====
